---- MODULE Spec2Model ----
(***************************************************************************)
(* OpenDeepResearcher-API: the iterative research loop of                  *)
(* ResearchEngine.research (src/app/researcher.py) and the text parsers it *)
(* relies on.                                                              *)
(*                                                                         *)
(* Text is modelled as a sequence of tokens (a token is a maximal piece of *)
(* text the parsers never look inside of: a bracket, a comma, a quoted     *)
(* string literal, a code fence, a run of whitespace, a word).  A          *)
(* completion result is either None (the provider failed) or such a text.  *)
(***************************************************************************)
EXTENDS Integers, Sequences, FiniteSets, TLC

(* ----------------------------- bounds --------------------------------- *)
\* Largest max_iterations a session is started with.
MaxIterations == 2

(* ------------------------- program constants -------------------------- *)
\* queries[:4] in generate_search_queries.
QueryLimit == 4

(* ------------------------------ text ---------------------------------- *)
\* Optional[str]: None, or a text.
NoneResp == [some |-> FALSE, text |-> <<>>]
Some(t) == [some |-> TRUE, text |-> t]
\* Python truthiness of an Optional[str]: neither None nor "".
Truthy(r) == r.some /\ r.text # <<>>

\* Whitespace run.
SP == "sp"
\* The two code-fence markers _clean_llm_response removes (three backquotes,
\* with and without the word python).
Fences == {"fence_python", "fence"}
\* Quoted Python string literals (str_a is the text of the literal for the
\* string a, str_empty the literal of the empty string) and the str value each
\* evaluates to.
StrLits == {"str_a", "str_b", "str_c", "str_d", "str_e", "str_empty"}
\* A literal that is not a string.
IntLits == {"int_1"}
Lits == StrLits \cup IntLits

LitVal(tok) ==
    CASE tok = "str_a" -> "a"
      [] tok = "str_b" -> "b"
      [] tok = "str_c" -> "c"
      [] tok = "str_d" -> "d"
      [] tok = "str_e" -> "e"
      [] tok = "str_empty" -> ""
      [] OTHER -> "int:1"

\* isinstance(q, str)
IsStr(v) == v \notin {"int:1", "list:"}

\* str.strip() on a token text: drop leading and trailing whitespace runs.
RECURSIVE LStrip(_)
LStrip(s) == IF s # <<>> /\ Head(s) = SP THEN LStrip(Tail(s)) ELSE s

RECURSIVE RStrip(_)
RStrip(s) ==
    IF s # <<>> /\ s[Len(s)] = SP THEN RStrip(SubSeq(s, 1, Len(s) - 1)) ELSE s

Strip(s) == RStrip(LStrip(s))

IsFence(tok) == tok \in Fences
NotFence(tok) == ~IsFence(tok)
NotSpace(tok) == tok # SP

\* _clean_llm_response: None -> "", remove the fence markers, strip.
CleanLLMResponse(response) ==
    IF ~response.some THEN <<>>
    ELSE Strip(SelectSeq(response.text, NotFence))

\* str.find / str.rfind of one token, 1-based, 0 when absent.
Find(s, tok) ==
    IF \E i \in 1..Len(s) : s[i] = tok
    THEN CHOOSE i \in 1..Len(s) : s[i] = tok /\ \A j \in 1..(i - 1) : s[j] # tok
    ELSE 0

RFind(s, tok) ==
    IF \E i \in 1..Len(s) : s[i] = tok
    THEN CHOOSE i \in 1..Len(s) : s[i] = tok /\ \A j \in (i + 1)..Len(s) : s[j] # tok
    ELSE 0

\* The values of the model that are no str: the int 1, a list.
NotStrVals == {"int:1", "list:"}

\* What the parse of an expression yields when it fails.
ParseFail ==
    [ok |-> FALSE, next |-> 0, kind |-> "raise", val |-> "", items |-> <<>>]

\* Adjacent string literals are one string: where the run that starts at i
\* ends, and the value of the run from i up to j.
RECURSIVE StrRunEnd(_, _)
StrRunEnd(t, i) ==
    IF i <= Len(t) /\ t[i] \in StrLits THEN StrRunEnd(t, i + 1) ELSE i

RECURSIVE ConcatLits(_, _, _)
ConcatLits(t, i, j) ==
    IF i >= j THEN "" ELSE LitVal(t[i]) \o ConcatLits(t, i + 1, j)

\* The expression that starts at token i: an int literal, a run of string
\* literals, or a list display [e, e, ...] with an optional trailing comma.
\* next is the token after it; a list has its elements' values in items, and
\* as an element of another list the value "list:".
RECURSIVE ParseAtom(_, _)
RECURSIVE ParseItems(_, _, _)
ParseAtom(t, i) ==
    IF i > Len(t) THEN ParseFail
    ELSE IF t[i] \in IntLits
    THEN [ok |-> TRUE, next |-> i + 1, kind |-> "other", val |-> LitVal(t[i]),
          items |-> <<>>]
    ELSE IF t[i] \in StrLits
    THEN LET j == StrRunEnd(t, i)
         IN [ok |-> TRUE, next |-> j, kind |-> "other",
             val |-> ConcatLits(t, i, j), items |-> <<>>]
    ELSE IF t[i] = "[" THEN ParseItems(t, i + 1, <<>>)
    ELSE ParseFail

ParseItems(t, i, acc) ==
    IF i > Len(t) THEN ParseFail
    ELSE IF t[i] = "]"
    THEN [ok |-> TRUE, next |-> i + 1, kind |-> "list", val |-> "list:",
          items |-> acc]
    ELSE LET e == ParseAtom(t, i)
         IN IF ~e.ok \/ e.next > Len(t) THEN ParseFail
            ELSE IF t[e.next] = ","
            THEN ParseItems(t, e.next + 1, Append(acc, e.val))
            ELSE IF t[e.next] = "]"
            THEN [ok |-> TRUE, next |-> e.next + 1, kind |-> "list",
                  val |-> "list:", items |-> Append(acc, e.val)]
            ELSE ParseFail

\* Python's eval on a token text (whitespace between tokens does not count).
\* kind "list": the value is a list (val its elements); "other": a value that
\* is no list; "raise": eval raised (a syntax error, an unknown name ...).
PyEval(text) ==
    LET t == SelectSeq(text, NotSpace)
        e == ParseAtom(t, 1)
    IN IF e.ok /\ e.next = Len(t) + 1
       THEN [kind |-> e.kind, val |-> e.items]
       ELSE [kind |-> "raise", val |-> <<>>]

\* list[:n]
Take(s, n) == SubSeq(s, 1, IF Len(s) < n THEN Len(s) ELSE n)

\* call_llm: the provider's result, with a falsy result (None, "") and any
\* exception turned into None.
CallLLM(outcome) == IF Truthy(outcome) THEN outcome ELSE NoneResp

\* generate_search_queries without the isinstance(q, str) test.
GenerateSearchQueriesAnyType(response) ==
    IF ~Truthy(response) THEN <<>>
    ELSE LET cleaned == CleanLLMResponse(response)
             start == Find(cleaned, "[")
             end == RFind(cleaned, "]")
         IN IF start # 0 /\ end # 0
            THEN LET queries == PyEval(SubSeq(cleaned, start, end))
                 IN IF queries.kind = "list" /\ Len(queries.val) > 0
                    THEN Take(queries.val, QueryLimit)
                    ELSE <<>>
            ELSE <<>>

\* generate_search_queries keeping the last QueryLimit elements.
GenerateSearchQueriesLast(response) ==
    IF ~Truthy(response) THEN <<>>
    ELSE LET cleaned == CleanLLMResponse(response)
             start == Find(cleaned, "[")
             end == RFind(cleaned, "]")
         IN IF start # 0 /\ end # 0
            THEN LET queries == PyEval(SubSeq(cleaned, start, end))
                 IN IF /\ queries.kind = "list"
                       /\ Len(queries.val) > 0
                       /\ \A i \in 1..Len(queries.val) : IsStr(queries.val[i])
                    THEN IF Len(queries.val) <= QueryLimit THEN queries.val
                         ELSE SubSeq(queries.val, Len(queries.val) - QueryLimit + 1,
                                     Len(queries.val))
                    ELSE <<>>
            ELSE <<>>

\* generate_search_queries, from the result of call_llm on.
GenerateSearchQueries(response) ==
    IF ~Truthy(response) THEN <<>>
    ELSE LET cleaned == CleanLLMResponse(response)
             start == Find(cleaned, "[")
             end == RFind(cleaned, "]")
         IN IF start # 0 /\ end # 0
            THEN LET queries == PyEval(SubSeq(cleaned, start, end))
                 IN IF /\ queries.kind = "list"
                       /\ Len(queries.val) > 0
                       /\ \A i \in 1..Len(queries.val) : IsStr(queries.val[i])
                    THEN Take(queries.val, QueryLimit)
                    ELSE <<>>
            ELSE <<>>

\* str.lower() on the first word of a verdict.
Lower(tok) ==
    CASE tok = "No" -> "no"
      [] tok = "NO" -> "no"
      [] tok = "Yes" -> "yes"
      [] tok = "No." -> "no."
      [] tok = "No," -> "no,"
      [] OTHER -> tok

\* is_page_useful, from the result of call_llm on: "Yes", "No", or "raise"
\* (the IndexError of split()[0] on a text with no word in it).
IsPageUseful(response) ==
    IF Truthy(response)
    THEN LET words == SelectSeq(CleanLLMResponse(response), NotSpace)
         IN IF words = <<>> THEN "raise"
            ELSE IF Lower(words[1]) = "no" THEN "No" ELSE "Yes"
    ELSE "Yes"

\* The extractor's nothing-found sentinel, one token.
NoInfoSentinel == "No relevant information found."
\* Tokens whose first character is the bullet marker '-'.
BulletTokens == {"-"}

\* extract_relevant_context without its test for the bullet marker.
ExtractRelevantContextAnyText(response) ==
    IF Truthy(response)
    THEN LET context == Strip(response.text)
         IN IF context = <<NoInfoSentinel>> THEN NoneResp
            ELSE Some(context)
    ELSE NoneResp

\* extract_relevant_context returning the answer as it came, untrimmed.
ExtractRelevantContextUnstripped(response) ==
    IF Truthy(response)
    THEN LET context == Strip(response.text)
         IN IF context = <<NoInfoSentinel>> THEN NoneResp
            ELSE IF context = <<>> \/ context[1] \notin BulletTokens THEN NoneResp
            ELSE Some(response.text)
    ELSE NoneResp

\* extract_relevant_context, from the result of call_llm on.
ExtractRelevantContext(response) ==
    IF Truthy(response)
    THEN LET context == Strip(response.text)
         IN IF context = <<NoInfoSentinel>> THEN NoneResp
            ELSE IF context = <<>> \/ context[1] \notin BulletTokens THEN NoneResp
            ELSE Some(context)
    ELSE NoneResp

\* The planner's completion sentinel, one token.
DoneSentinel == "<done>"

\* get_new_search_queries without its test for the sentinel.
GetNewSearchQueriesNoSentinel(response) ==
    IF Truthy(response)
    THEN LET queries == PyEval(CleanLLMResponse(response))
         IN IF queries.kind = "list" /\ Len(queries.val) > 0
            THEN [done |-> FALSE, queries |-> queries.val]
            ELSE [done |-> FALSE, queries |-> <<>>]
    ELSE [done |-> FALSE, queries |-> <<>>]

\* get_new_search_queries, from the result of call_llm on: None (done) is
\* [done |-> TRUE], a list is [done |-> FALSE, queries |-> it].
GetNewSearchQueries(response) ==
    IF Truthy(response)
    THEN LET cleaned == CleanLLMResponse(response)
         IN IF cleaned = <<DoneSentinel>> THEN [done |-> TRUE, queries |-> <<>>]
            ELSE LET queries == PyEval(cleaned)
                 IN IF queries.kind = "list" /\ Len(queries.val) > 0
                    THEN [done |-> FALSE, queries |-> queries.val]
                    ELSE [done |-> FALSE, queries |-> <<>>]
    ELSE [done |-> FALSE, queries |-> <<>>]

\* The fixed report of generate_final_report when the completion call fails.
InsufficientReport ==
    <<"Unable to generate report due to insufficient research findings.">>
\* The methodology section appended to a generated report.
Methodology == <<"## Research Methodology">>

\* generate_final_report, from the result of call_llm on.
GenerateFinalReport(response) ==
    IF ~Truthy(response) THEN InsufficientReport
    ELSE response.text \o Methodology

\* The links of an ordered link map.
LinksOf(unique) == {unique[i].link : i \in 1..Len(unique)}

\* The link map without the entry of one link.
Without(unique, link) ==
    LET Other(e) == e.link # link IN SelectSeq(unique, Other)

\* The loop without its `if link not in unique_links`: the last query wins.
RECURSIVE AddLinksLastWins(_, _, _)
AddLinksLastWins(unique, links, query_used) ==
    IF links = <<>> THEN unique
    ELSE AddLinksLastWins(
            Append(Without(unique, Head(links)),
                   [link |-> Head(links), query |-> query_used]),
            Tail(links), query_used)

\* for link in links: if link not in unique_links: unique_links[link] = query_used
RECURSIVE AddLinks(_, _, _)
AddLinks(unique, links, query_used) ==
    IF links = <<>> THEN unique
    ELSE AddLinks(
            IF Head(links) \in LinksOf(unique) THEN unique
            ELSE Append(unique, [link |-> Head(links), query |-> query_used]),
            Tail(links), query_used)

\* for idx, links in enumerate(search_results): ... from idx on
RECURSIVE DedupFrom(_, _, _, _)
DedupFrom(unique, qs, results, idx) ==
    IF idx > Len(results) THEN unique
    ELSE DedupFrom(AddLinks(unique, results[idx], qs[idx]), qs, results, idx + 1)

\* The deduplicated link map of one iteration, in insertion order.
UniqueLinks(qs, results) == DedupFrom(<<>>, qs, results, 1)

(* ------------------------- the environment ---------------------------- *)
UserQuery == "topic"

\* What the provider may answer to the initial-queries prompt: a failure,
\* an empty text, prose without brackets, an unclosed list, brackets in the
\* wrong order, a list of a bare word, an empty list, a list with a
\* non-string element ...
InitialFailures ==
    { NoneResp,
      Some(<<>>),
      Some(<<"word", SP, "word">>),
      Some(<<"[", "str_a", ",">>),
      Some(<<"]", SP, "[">>),
      Some(<<"[", "word", "]">>),
      Some(<<"[", "]">>),
      Some(<<"[", "str_a", ",", "int_1", "]">>) }
\* ... or a list of strings: of one, of two inside a code fence, of five.
InitialLists ==
    { Some(<<"[", "str_a", "]">>),
      Some(<<"fence_python", SP, "[", "str_a", ",", SP, "str_b", "]", SP, "fence">>),
      Some(<<"[", "str_a", ",", "str_b", ",", "str_c", ",", "str_d", ",", "str_e", "]">>) }
InitialOutcomes == InitialFailures \cup InitialLists

\* What one search call may return (the empty list also stands for a failed
\* search: perform_search returns [] on a non-200 status and on an exception).
Links == {"u1", "u2"}
SearchOutcomes == { <<>>, <<"u1">>, <<"u2", "u1", "u2">> }
\* The modelled web answers as many search calls of one session with links as
\* it has pages; the other search calls come back empty.
MaxHits == Cardinality(Links)

\* What a fetch may return: "" (non-200, exception, empty page) or a page text.
FetchOutcomes == { <<>>, <<"page">> }

\* What the provider may answer to the relevance prompt.
FilterOutcomes ==
    { NoneResp,
      Some(<<"Yes", SP, "word">>),
      Some(<<"No", SP, "word">>),
      Some(<<"fence", SP, "no">>),
      Some(<<"word">>),
      Some(<<"fence", SP, "fence">>),
      Some(<<SP>>) }

\* What the provider may answer to the extraction prompt for a link.
ExtractOutcomes(link) ==
    { NoneResp,
      Some(<<NoInfoSentinel>>),
      Some(<<"word", SP, link>>),
      Some(<<SP, "-", SP, link, SP>>) }

\* What the provider may answer to the next-queries prompt.
PlanOutcomes ==
    { NoneResp,
      Some(<<DoneSentinel>>),
      Some(<<"[", "]">>),
      Some(<<"word", SP, "[", "str_c", "]">>),
      Some(<<"[", "str_c", "]">>),
      Some(<<"[", "str_a", ",", "str_b", ",", "str_c", ",", "str_d", ",", "str_e", "]">>) }

\* What the provider may answer to the report prompt.
ReportOutcomes == { NoneResp, Some(<<"report">>) }

(* ----------------------------- the state ------------------------------ *)
VARIABLES
    pc,                 \* where research() stands
    has_queue,          \* status_queue was supplied
    max_iterations,
    iteration,          \* the for loop's variable
    queries,            \* the working batch
    all_queries,
    contexts,
    iteration_contexts,
    logs,
    events,             \* what was put on status_queue, in order
    search_results,     \* gather's results, one per query of the batch
    pending,            \* the search tasks gather is waiting for
    unique_links,       \* the ordered dict link -> query of the iteration
    link_idx,           \* position of the for loop over unique_links
    content,            \* the page text of the link being processed
    report,
    result,             \* what research() returned
    initial_response,   \* history: the provider's answer to the initial prompt
    calls,              \* history: how many calls of each kind were issued
    planned,            \* history: the planner's answer of each iteration
    batches,            \* history: every batch handed to the search fan-out
    fetched,            \* history: link -> page text, for the links fetched in this iteration
    filtered,           \* history: the links filtered in this iteration
    extracted,          \* history: the links extracted in this iteration
    saved_path,         \* what save_research_to_markdown returned
    given,              \* history: what the input of a function was written from
    response,           \* the completion answer handed to a function on its own
    returned,           \* what a function applied on its own returned
    config,             \* the settings handed to the provider selector
    http,               \* what the completion adapter meets on the wire
    consumed,           \* how many events the streaming consumer took from the queue
    stream,             \* the streaming consumer: "none", "open" or "closed"
    yielded,            \* the types of the events the streaming consumer yielded
    completed,          \* history: the search tasks in the order they returned, with their results
    search_failed,      \* history: the search tasks whose call failed
    settings,           \* main.py's settings object
    research_engine,    \* main.py's global: the engine in use (an index of engines)
    engines,            \* the ResearchEngine objects constructed so far
    sessions            \* the research() calls of the server, one per request

vars == <<pc, has_queue, max_iterations, iteration, queries, all_queries,
          contexts, iteration_contexts, logs, events, search_results, pending,
          unique_links, link_idx, content, report, result, initial_response,
          calls, planned, batches, fetched, filtered, extracted, saved_path,
          given, response, returned, config, http, consumed, stream, yielded,
          completed, search_failed, settings, research_engine, engines,
          sessions>>

\* Everything of the session but pc.
session == <<has_queue, max_iterations, iteration, queries, all_queries,
             contexts, iteration_contexts, logs, events, search_results,
             pending, unique_links, link_idx, content, report, result,
             initial_response, calls, planned, batches, fetched, filtered,
             extracted, saved_path>>

\* The history of the search tasks, which research() itself never sees.
gather == <<completed, search_failed>>

\* The module state of main.py.
server == <<settings, research_engine, engines, sessions>>

\* The variables research() does not touch.
aux == <<given, response, returned, config, http, consumed, stream, yielded,
         gather, server>>

\* Their values where they play no part.
NoConfig ==
    [search_provider |-> "", serpapi_api_key |-> NoneResp, bing_api_key |-> NoneResp]
NoHttp ==
    [provider |-> "", kind |-> "", body |-> [json |-> FALSE, content |-> NoneResp]]
NoSettings == [llm_provider |-> "", model |-> "", keys |-> {}]
GatherIdle ==
    /\ completed = <<>>
    /\ search_failed = {}
ServerIdle ==
    /\ settings = NoSettings
    /\ research_engine = 0
    /\ engines = <<>>
    /\ sessions = <<>>
AuxIdle ==
    /\ response = NoneResp
    /\ returned = ""
    /\ config = NoConfig
    /\ http = NoHttp
    /\ consumed = 0
    /\ stream = "none"
    /\ yielded = <<>>
    /\ GatherIdle
    /\ ServerIdle

NoKw == [x \in {} |-> x]

ToStr(n) ==
    CASE n = 0 -> "0" [] n = 1 -> "1" [] n = 2 -> "2" [] n = 3 -> "3"
      [] n = 4 -> "4" [] n = 5 -> "5" [] n = 6 -> "6" [] n = 7 -> "7"
      [] OTHER -> "many"

\* send_status with an else: the message is logged only when no queue takes it.
SendStatusQueueOrLog(ls, status_type, message, kw) ==
    IF has_queue
    THEN [logs |-> ls.logs,
          events |-> Append(ls.events,
                            [type |-> status_type, message |-> message] @@ kw)]
    ELSE [logs |-> Append(ls.logs, message), events |-> ls.events]

\* send_status on the pair ls = [logs, events]: put the event on the queue
\* when there is one, then append the message to logs.
SendStatus(ls, status_type, message, kw) ==
    [logs |-> Append(ls.logs, message),
     events |-> IF has_queue
                THEN Append(ls.events,
                            [type |-> status_type, message |-> message] @@ kw)
                ELSE ls.events]

Now == [logs |-> logs, events |-> events]

ErrorMessage ==
    <<"LLM provider rate limit exceeded. Please try again later or upgrade to a paid plan.">>
FailureReport == <<"Research failed: ">> \o ErrorMessage

NoResult == [returned |-> FALSE, report |-> <<>>, logs |-> <<>>]

ZeroCalls ==
    [initial |-> 0, search |-> 0, hits |-> 0, fanout |-> 0, fetch |-> 0,
     filter |-> 0, extract |-> 0, plan |-> 0, report |-> 0]

Bump(c, kind) == [c EXCEPT ![kind] = @ + 1]

\* research() is called: its locals, and the histories, before its first line.
SessionInit ==
    /\ pc = "start"
    /\ has_queue \in BOOLEAN
    /\ max_iterations \in 1..MaxIterations
    /\ iteration = 0
    /\ queries = <<>>
    /\ all_queries = <<>>
    /\ contexts = <<>>
    /\ iteration_contexts = <<>>
    /\ logs = <<>>
    /\ events = <<>>
    /\ search_results = <<>>
    /\ pending = {}
    /\ unique_links = <<>>
    /\ link_idx = 0
    /\ content = <<>>
    /\ report = <<>>
    /\ result = NoResult
    /\ initial_response = NoneResp
    /\ calls = ZeroCalls
    /\ planned = <<>>
    /\ batches = <<>>
    /\ fetched = <<>>
    /\ filtered = {}
    /\ extracted = {}
    /\ saved_path = "unsaved"

Init ==
    /\ SessionInit
    /\ given = <<>>
    /\ AuxIdle

(* ---------------------------- research() ------------------------------ *)
\* The loop with one iteration too many.
LoopContinuesOneMore(i, max) == i <= max

\* for iteration in range(max_iterations): the loop goes on with index i.
LoopContinues(i, max) == i < max

\* The loop going to the next link's filter call without its fetch.
AfterLinkToFilter(idx, n) == IF idx + 1 > n THEN "plan" ELSE "filter"

\* Where the for loop over unique_links stands after the link at idx:
\* the next link, or the end of the loop.
AfterLink(idx, n) == IF idx + 1 > n THEN "plan" ELSE "fetch"

\* `break` in the place of `continue`: an empty fetch ends the batch.
AfterEmptyFetchBreak(idx, n) == "plan"

\* `continue` after an empty fetch: on to the next link.
AfterEmptyFetch(idx, n) == AfterLink(idx, n)

\* The batch put in front of the contexts gathered so far.
ExtendContextsInFront(ctxs, batch) == batch \o ctxs

\* contexts.extend(iteration_contexts)
ExtendContexts(ctxs, batch) == ctxs \o batch

\* Lines 368-373: the start event, the session, the progress event; the
\* coroutine then waits for generate_search_queries.
Start ==
    /\ pc = "start"
    /\ UNCHANGED aux
    /\ LET s1 == SendStatus(Now, "start", <<"Starting research: ", UserQuery>>, NoKw)
           s2 == SendStatus(s1, "progress",
                            <<"Generating initial search queries...">>, NoKw)
       IN logs' = s2.logs /\ events' = s2.events
    /\ pc' = "initial"
    /\ UNCHANGED <<has_queue, max_iterations, iteration, queries, all_queries,
                   contexts, iteration_contexts, search_results, pending,
                   unique_links, link_idx, content, report, result,
                   initial_response, calls, planned, batches, fetched,
                   filtered, extracted, saved_path>>

\* Lines 374-384: generate_search_queries returns; no queries is the failure
\* return, otherwise the loop is entered.
InitialWith(outcome) ==
    /\ pc = "initial"
    /\ LET qs == GenerateSearchQueries(CallLLM(outcome))
       IN /\ initial_response' = outcome
          /\ calls' = Bump(calls, "initial")
          /\ IF qs = <<>>
             THEN LET s1 == SendStatus(Now, "error", ErrorMessage, NoKw)
                  IN /\ logs' = s1.logs
                     /\ events' = s1.events
                     /\ result' = [returned |-> TRUE, report |-> FailureReport,
                                   logs |-> s1.logs]
                     /\ pc' = "failed"
                     /\ UNCHANGED <<queries, all_queries>>
             ELSE LET s1 == SendStatus(Now, "queries",
                                       <<"Generated initial queries">>,
                                       [queries |-> qs])
                  IN /\ logs' = s1.logs
                     /\ events' = s1.events
                     /\ queries' = qs
                     /\ all_queries' = all_queries \o qs
                     /\ pc' = IF LoopContinues(0, max_iterations)
                              THEN "iterate" ELSE "report"
                     /\ UNCHANGED result
    /\ UNCHANGED <<has_queue, max_iterations, iteration, contexts,
                   iteration_contexts, search_results, pending, unique_links,
                   link_idx, content, report, planned, batches, fetched,
                   filtered, extracted, saved_path>>

\* The provider answers the initial prompt.
Initial ==
    /\ \E outcome \in InitialOutcomes : InitialWith(outcome)
    /\ UNCHANGED aux

\* The loop variable itself as the number of the iteration.
IterationNumberFromZero(i) == i

\* iteration + 1 (lines 385-386): the iterations are numbered from 1.
IterationNumber(i) == i + 1

\* Lines 385-390: the iteration and progress events, then one search task per
\* query of the batch is created and handed to gather.
Iterate ==
    /\ pc = "iterate"
    /\ UNCHANGED aux
    /\ LET s1 == SendStatus(Now, "iteration",
                            <<"=== Iteration ", ToStr(IterationNumber(iteration))>>,
                            [iteration |-> IterationNumber(iteration)])
           s2 == SendStatus(s1, "progress",
                            <<"Executing search queries in parallel">>, NoKw)
       IN logs' = s2.logs /\ events' = s2.events
    /\ pending' = 1..Len(queries)
    /\ calls' = [calls EXCEPT !.fanout = @ + 1, !.search = @ + Len(queries)]
    /\ batches' = Append(batches, queries)
    /\ pc' = "searching"
    /\ UNCHANGED <<has_queue, max_iterations, iteration, queries, all_queries,
                   contexts, iteration_contexts, search_results, unique_links,
                   link_idx, content, report, result, initial_response,
                   planned, fetched, filtered, extracted, saved_path>>

\* Lines 391-404: gather returns once every perform_search task has (each
\* with its links, or with [] when it failed), with the results in the order
\* of the tasks; the links are deduplicated, the links event is sent and the
\* loop over the links starts.
SearchWith(results) ==
    /\ pc = "searching"
    /\ LET unique == UniqueLinks(queries, results)
           hits == Cardinality({i \in DOMAIN results : results[i] # <<>>})
           s1 == SendStatus(Now, "links",
                            <<"Found ", ToStr(Len(unique)), " unique links">>,
                            [count |-> Len(unique)])
       IN /\ calls.hits + hits <= MaxHits
          /\ calls' = [calls EXCEPT !.hits = @ + hits]
          /\ search_results' = results
          /\ unique_links' = unique
          /\ logs' = s1.logs
          /\ events' = s1.events
          /\ pc' = AfterLink(0, Len(unique))
    /\ pending' = {}
    /\ link_idx' = 1
    /\ iteration_contexts' = <<>>
    /\ fetched' = <<>>
    /\ filtered' = {}
    /\ extracted' = {}
    /\ UNCHANGED <<has_queue, max_iterations, iteration, queries, all_queries,
                   contexts, content, report, result, initial_response,
                   planned, batches, saved_path>>

\* Every search task of the batch has returned.
Search ==
    /\ \E results \in [pending -> SearchOutcomes] : SearchWith(results)
    /\ UNCHANGED aux

\* The link the loop over unique_links stands at.
Link == unique_links[link_idx].link

\* Lines 405-412: the processing event and fetch_webpage_text; an empty text
\* is a warning and `continue`.  (search_results is not read after the
\* deduplication; the model forgets it here.)
FetchWith(text) ==
    /\ pc = "fetch"
    /\ LET s1 == SendStatus(Now, "processing", <<"Processing: ", Link>>,
                            [url |-> Link])
           s2 == SendStatus(s1, "warning",
                            <<"No content retrieved from ", Link>>, NoKw)
       IN /\ content' = text
          /\ fetched' = Append(fetched, [link |-> Link, text |-> text])
          /\ IF text = <<>>
             THEN /\ logs' = s2.logs
                  /\ events' = s2.events
                  /\ pc' = AfterEmptyFetch(link_idx, Len(unique_links))
                  /\ link_idx' = link_idx + 1
             ELSE /\ logs' = s1.logs
                  /\ events' = s1.events
                  /\ pc' = "filter"
                  /\ link_idx' = link_idx
    /\ calls' = Bump(calls, "fetch")
    /\ search_results' = <<>>
    /\ UNCHANGED <<has_queue, max_iterations, iteration, queries, all_queries,
                   contexts, iteration_contexts, pending, unique_links, report,
                   result, initial_response, planned, batches, filtered,
                   extracted, saved_path>>

\* The fetch of the link returns.
Fetch ==
    /\ \E text \in FetchOutcomes : FetchWith(text)
    /\ UNCHANGED aux

\* Lines 414-417: is_page_useful and the evaluation event.  The IndexError of
\* is_page_useful is caught nowhere in research(): it ends the coroutine.
FilterWith(outcome) ==
    /\ pc = "filter"
    /\ LET usefulness == IsPageUseful(CallLLM(outcome))
           s1 == SendStatus(Now, "evaluation",
                            <<"Page usefulness: ", usefulness>>,
                            [url |-> Link, useful |-> usefulness = "Yes"])
       IN IF usefulness = "raise"
          THEN /\ pc' = "raised"
               /\ UNCHANGED <<logs, events, link_idx>>
          ELSE /\ logs' = s1.logs
               /\ events' = s1.events
               /\ IF usefulness = "Yes"
                  THEN pc' = "extract" /\ link_idx' = link_idx
                  ELSE /\ pc' = AfterLink(link_idx, Len(unique_links))
                       /\ link_idx' = link_idx + 1
    /\ calls' = Bump(calls, "filter")
    /\ filtered' = filtered \cup {Link}
    /\ UNCHANGED <<has_queue, max_iterations, iteration, queries, all_queries,
                   contexts, iteration_contexts, search_results, pending,
                   unique_links, content, report, result, initial_response,
                   planned, batches, fetched, extracted, saved_path>>

\* The provider answers the relevance prompt.
Filter ==
    /\ \E outcome \in FilterOutcomes : FilterWith(outcome)
    /\ UNCHANGED aux

\* Lines 418-421: extract_relevant_context; a context is appended to the
\* iteration's batch and announced.  The preview context[:100] is the whole
\* context for the short texts of the model.
Extract ==
    /\ pc = "extract"
    /\ UNCHANGED aux
    /\ \E outcome \in ExtractOutcomes(Link) :
         LET context == ExtractRelevantContext(CallLLM(outcome))
             s1 == SendStatus(Now, "context",
                              <<"Extracted context (preview): ">> \o context.text
                                  \o <<"...">>,
                              [url |-> Link])
         IN IF Truthy(context)
            THEN /\ iteration_contexts' = Append(iteration_contexts, context.text)
                 /\ logs' = s1.logs
                 /\ events' = s1.events
            ELSE UNCHANGED <<iteration_contexts, logs, events>>
    /\ calls' = Bump(calls, "extract")
    /\ extracted' = extracted \cup {Link}
    /\ pc' = AfterLink(link_idx, Len(unique_links))
    /\ link_idx' = link_idx + 1
    /\ UNCHANGED <<has_queue, max_iterations, iteration, queries, all_queries,
                   contexts, search_results, pending, unique_links, content,
                   report, result, initial_response, planned, batches, fetched,
                   filtered, saved_path>>

\* Lines 423-436: the iteration's batch is merged into contexts, then
\* get_new_search_queries decides: None or [] leaves the loop, a list becomes
\* the next batch, and the for loop goes on while its range lasts.
PlanWith(outcome) ==
    /\ pc = "plan"
    /\ LET merged == IF iteration_contexts # <<>>
                     THEN ExtendContexts(contexts, iteration_contexts)
                     ELSE contexts
           s1 == IF iteration_contexts # <<>>
                 THEN SendStatus(Now, "progress",
                                 <<"Added ", ToStr(Len(iteration_contexts)),
                                   " new contexts">>,
                                 [count |-> Len(iteration_contexts)])
                 ELSE SendStatus(Now, "warning",
                                 <<"No useful contexts found in this iteration">>,
                                 NoKw)
           new == GetNewSearchQueries(CallLLM(outcome))
           s2 == SendStatus(s1, "progress",
                            <<"No more queries needed. Generating report...">>,
                            NoKw)
           s3 == SendStatus(s1, "queries", <<"New queries for next iteration">>,
                            [queries |-> new.queries])
       IN /\ contexts' = merged
          /\ planned' = Append(planned, new)
          /\ queries' = new.queries
          /\ IF new.done \/ new.queries = <<>>
             THEN /\ logs' = s2.logs
                  /\ events' = s2.events
                  /\ pc' = "report"
                  /\ UNCHANGED <<all_queries, iteration>>
             ELSE /\ logs' = s3.logs
                  /\ events' = s3.events
                  /\ all_queries' = all_queries \o new.queries
                  /\ IF LoopContinues(iteration + 1, max_iterations)
                     THEN pc' = "iterate" /\ iteration' = iteration + 1
                     ELSE pc' = "report" /\ iteration' = iteration
    /\ calls' = Bump(calls, "plan")
    /\ search_results' = <<>>
    /\ UNCHANGED <<has_queue, max_iterations, iteration_contexts, pending,
                   unique_links, link_idx, content, report, result,
                   initial_response, batches, fetched, filtered, extracted,
                   saved_path>>

\* The provider answers the next-queries prompt.
Plan ==
    /\ \E outcome \in PlanOutcomes : PlanWith(outcome)
    /\ UNCHANGED aux

\* The file save_research_to_markdown writes to.
SavedFile == "research_outputs/file.md"

\* save_research_to_markdown without its try (lines 333-346): the error of
\* makedirs, open or write leaves the method.
SaveResearchToMarkdownUncaught(written) ==
    [raised |-> ~written, path |-> IF written THEN SavedFile ELSE ""]

\* save_research_to_markdown (lines 304-346): the file name and the content
\* are strings built from the query, the report and the logs; makedirs, open
\* and write stand in a try whose except Exception logs and returns "".
SaveResearchToMarkdown(written) ==
    [raised |-> FALSE, path |-> IF written THEN SavedFile ELSE ""]

\* Lines 438-454: the progress event and generate_final_report, which calls
\* the completion capability whatever contexts holds; then, with no
\* suspension in between, save_research_to_markdown (a path, or "" when the
\* write fails), the complete event on the queue, and the return.  Nothing
\* in research() catches what a call of these lines raises.
Report ==
    /\ pc = "report"
    /\ UNCHANGED aux
    /\ \E outcome \in ReportOutcomes, written \in BOOLEAN :
         LET s1 == SendStatus(Now, "progress",
                              <<"Generating final research report">>, NoKw)
             text == GenerateFinalReport(CallLLM(outcome))
             saved == SaveResearchToMarkdown(written)
         IN /\ report' = text
            /\ saved_path' = saved.path
            /\ logs' = s1.logs
            /\ IF saved.raised
               THEN /\ events' = s1.events
                    /\ pc' = "raised"
                    /\ UNCHANGED result
               ELSE /\ events' = IF has_queue
                                 THEN Append(s1.events,
                                             [type |-> "complete",
                                              message |-> <<"Research completed successfully">>,
                                              report |-> text, logs |-> s1.logs])
                                 ELSE s1.events
                    /\ pc' = "done"
                    /\ result' = [returned |-> TRUE, report |-> text,
                                  logs |-> s1.logs]
    /\ calls' = Bump(calls, "report")
    /\ UNCHANGED <<has_queue, max_iterations, iteration, queries, all_queries,
                   contexts, iteration_contexts, search_results, pending,
                   unique_links, link_idx, content, initial_response, planned,
                   batches, fetched, filtered, extracted>>

Next ==
    \/ Start
    \/ Initial
    \/ Iterate
    \/ Search
    \/ Fetch
    \/ Filter
    \/ Extract
    \/ Plan
    \/ Report

Spec == Init /\ [][Next]_vars

(* --------------------- the parsers on their own ----------------------- *)
\* Longest list literal handed to the initial-queries parser.
MaxListLen == 5

StrVals == {"a", "b", "c", "d", "e"}

LitOf(v) ==
    CASE v = "a" -> "str_a"
      [] v = "b" -> "str_b"
      [] v = "c" -> "str_c"
      [] v = "d" -> "str_d"
      [] OTHER -> "str_e"

\* The text of a Python list literal of the given strings.
RECURSIVE JoinLits(_)
JoinLits(vals) ==
    IF Len(vals) = 1 THEN <<LitOf(vals[1])>>
    ELSE <<LitOf(Head(vals)), ",", SP>> \o JoinLits(Tail(vals))

ListLiteral(vals) == <<"[">> \o JoinLits(vals) \o <<"]">>

\* How a model wraps its answer: bare, in a code fence, in prose.
Wrappings == {"bare", "fenced", "prose"}
Wrap(how, text) ==
    CASE how = "bare" -> text
      [] how = "fenced" -> <<"fence_python", SP>> \o text \o <<SP, "fence">>
      [] OTHER -> <<"word", SP>> \o text \o <<SP, "word">>

ListsUpTo(n) == UNION {[1..k -> StrVals] : k \in 1..n}

InitParse ==
    /\ pc = "parse"
    /\ has_queue = FALSE
    /\ max_iterations = 1
    /\ iteration = 0
    /\ queries = <<>>
    /\ all_queries = <<>>
    /\ contexts = <<>>
    /\ iteration_contexts = <<>>
    /\ logs = <<>>
    /\ events = <<>>
    /\ search_results = <<>>
    /\ pending = {}
    /\ unique_links = <<>>
    /\ link_idx = 0
    /\ content = <<>>
    /\ report = <<>>
    /\ result = NoResult
    /\ calls = ZeroCalls
    /\ planned = <<>>
    /\ batches = <<>>
    /\ fetched = <<>>
    /\ filtered = {}
    /\ extracted = {}
    /\ saved_path = "unsaved"
    /\ AuxIdle
    /\ given \in ListsUpTo(MaxListLen)
    /\ \E how \in Wrappings :
         initial_response = Some(Wrap(how, ListLiteral(given)))

\* generate_search_queries on the answer (lines 80-105).
ParseInitial ==
    /\ pc = "parse"
    /\ queries' = GenerateSearchQueries(CallLLM(initial_response))
    /\ pc' = "parsed"
    /\ UNCHANGED <<has_queue, max_iterations, iteration, all_queries, contexts,
                   iteration_contexts, logs, events, search_results, pending,
                   unique_links, link_idx, content, report, result,
                   initial_response, calls, planned, batches, fetched,
                   filtered, extracted, saved_path, aux>>

NextParse == ParseInitial

SpecParse == InitParse /\ [][NextParse]_vars

(* --------------- a list followed by more bracketed text --------------- *)
\* Longest completion answer handed to a function on its own, in tokens (in
\* elements, for a list).
MaxAnswerLen == 3

\* What may follow the list in an answer: a second list, a bracketed remark,
\* a second list after a comma.
Trailers ==
    { <<SP, "[", "str_e", "]">>,
      <<SP, "word", SP, "[", "word", "]">>,
      <<",", SP, "[", "str_e", "]">> }

InitFollowed ==
    /\ pc = "parse"
    /\ has_queue = FALSE
    /\ max_iterations = 1
    /\ iteration = 0
    /\ queries = <<>>
    /\ all_queries = <<>>
    /\ contexts = <<>>
    /\ iteration_contexts = <<>>
    /\ logs = <<>>
    /\ events = <<>>
    /\ search_results = <<>>
    /\ pending = {}
    /\ unique_links = <<>>
    /\ link_idx = 0
    /\ content = <<>>
    /\ report = <<>>
    /\ result = NoResult
    /\ calls = ZeroCalls
    /\ planned = <<>>
    /\ batches = <<>>
    /\ fetched = <<>>
    /\ filtered = {}
    /\ extracted = {}
    /\ saved_path = "unsaved"
    /\ AuxIdle
    /\ given \in ListsUpTo(MaxAnswerLen)
    /\ \E trailer \in Trailers :
         initial_response = Some(ListLiteral(given) \o trailer)

SpecFollowed == InitFollowed /\ [][NextParse]_vars

(* ------------------- the planner's answer, any text ------------------- *)
\* Every text of at most n tokens of an alphabet.
TextsUpTo(alphabet, n) == UNION {[1..k -> alphabet] : k \in 0..n}

\* What a planner's answer is made of: whitespace, a code fence, the
\* sentinel, the punctuation of a list display, literals, a prose word.
PlanTokens == {SP, "fence", DoneSentinel, "[", "]", ",", "str_a", "int_1", "word"}
PlanAnswers ==
    {NoneResp} \cup {Some(t) : t \in TextsUpTo(PlanTokens, MaxAnswerLen)}

\* A quiet session around the planner: the initial answer is one query and
\* no search finds a link.
QuietInitial == Some(<<"[", "str_a", "]">>)
QuietResults == [i \in pending |-> <<>>]

InitPlanner ==
    /\ SessionInit
    /\ given = <<>>
    /\ response \in PlanAnswers
    /\ returned = ""
    /\ config = NoConfig
    /\ http = NoHttp
    /\ consumed = 0
    /\ stream = "none"
    /\ yielded = <<>>
    /\ GatherIdle
    /\ ServerIdle

InitialQuiet == InitialWith(QuietInitial) /\ UNCHANGED aux

SearchQuiet == SearchWith(QuietResults) /\ UNCHANGED aux

\* get_new_search_queries gets the answer drawn for the session (lines 243-260)
\* and research() goes on from it (lines 430-436).
PlanGiven == PlanWith(response) /\ UNCHANGED aux

NextPlanner ==
    \/ Start
    \/ InitialQuiet
    \/ Iterate
    \/ SearchQuiet
    \/ PlanGiven
    \/ Report

SpecPlanner == InitPlanner /\ [][NextPlanner]_vars

(* ---------------- the relevance filter's answer, any text ------------- *)
\* What an answer to the relevance prompt is made of: whitespace, a code
\* fence, spellings of the two verdicts, a word of the reason.
FilterTokens == {SP, "fence", "No", "no", "No.", "No,", "Yes", "word"}
FilterAnswers ==
    {NoneResp} \cup {Some(t) : t \in TextsUpTo(FilterTokens, MaxAnswerLen)}

\* A session with one link that has a page; the answer to the relevance
\* prompt is drawn, and the planner is done after the first iteration.
OneLink == [i \in pending |-> <<"u1">>]
PageText == <<"page">>
DoneAnswer == Some(<<DoneSentinel>>)

InitFilter ==
    /\ SessionInit
    /\ given = <<>>
    /\ response \in FilterAnswers
    /\ returned = ""
    /\ config = NoConfig
    /\ http = NoHttp
    /\ consumed = 0
    /\ stream = "none"
    /\ yielded = <<>>
    /\ GatherIdle
    /\ ServerIdle

SearchOne == SearchWith(OneLink) /\ UNCHANGED aux

FetchPage == FetchWith(PageText) /\ UNCHANGED aux

\* is_page_useful gets the answer drawn for the session (lines 164-176) and
\* research() goes on from its verdict (lines 414-417).
FilterGiven == FilterWith(response) /\ UNCHANGED aux

PlanDone == PlanWith(DoneAnswer) /\ UNCHANGED aux

NextFilter ==
    \/ Start
    \/ InitialQuiet
    \/ Iterate
    \/ SearchOne
    \/ FetchPage
    \/ FilterGiven
    \/ Extract
    \/ PlanDone
    \/ Report

SpecFilter == InitFilter /\ [][NextFilter]_vars

(* ------------------- the extractor's answer, any text ----------------- *)
\* Most whitespace runs put in front of and behind an answer.
MaxPad == 1

\* research() is not running: its locals and the histories at rest.
SessionUnused ==
    /\ has_queue = FALSE
    /\ max_iterations = 1
    /\ iteration = 0
    /\ queries = <<>>
    /\ all_queries = <<>>
    /\ contexts = <<>>
    /\ iteration_contexts = <<>>
    /\ logs = <<>>
    /\ events = <<>>
    /\ search_results = <<>>
    /\ pending = {}
    /\ unique_links = <<>>
    /\ link_idx = 0
    /\ content = <<>>
    /\ report = <<>>
    /\ result = NoResult
    /\ initial_response = NoneResp
    /\ calls = ZeroCalls
    /\ planned = <<>>
    /\ batches = <<>>
    /\ fetched = <<>>
    /\ filtered = {}
    /\ extracted = {}
    /\ saved_path = "unsaved"

\* What an answer to the extraction prompt is made of.
ExtractTokens == {SP, "-", NoInfoSentinel, "word", "fence"}

\* The texts that neither start nor end with whitespace.
Trimmed(n) ==
    {t \in TextsUpTo(ExtractTokens, n) : t = <<>> \/ (t[1] # SP /\ t[Len(t)] # SP)}

Pad(k) == [i \in 1..k |-> SP]

\* The answers written from a trimmed text: the text with whitespace around
\* it; for the empty text also the failed call.
Padded(text) ==
    {Some(Pad(l) \o text \o Pad(r)) : l \in 0..MaxPad, r \in 0..MaxPad}
        \cup (IF text = <<>> THEN {NoneResp} ELSE {})

InitExtractor ==
    /\ pc = "answer"
    /\ SessionUnused
    /\ given \in Trimmed(MaxAnswerLen)
    /\ response \in Padded(given)
    /\ returned = ""
    /\ config = NoConfig
    /\ http = NoHttp
    /\ consumed = 0
    /\ stream = "none"
    /\ yielded = <<>>
    /\ GatherIdle
    /\ ServerIdle

\* extract_relevant_context on the answer (lines 206-217).
ExtractContext ==
    /\ pc = "answer"
    /\ returned' = ExtractRelevantContext(CallLLM(response))
    /\ pc' = "extracted"
    /\ UNCHANGED <<session, given, response, config, http, consumed, stream,
                   yielded, gather, server>>

NextExtractor == ExtractContext

SpecExtractor == InitExtractor /\ [][NextExtractor]_vars

(* ----------------------- the completion adapter ----------------------- *)
\* get_llm_provider's four adapters.
Providers == {"openrouter", "openai", "anthropic", "ollama"}

\* How a request ends: with an HTTP status, or with an exception of the
\* client (connection refused, timeout ...).
HttpKinds == {"200", "429", "401", "500", "exception"}

\* The response text: JSON with the generated text where the adapter looks
\* for it (a text, the empty text), JSON without it, or no JSON at all.
Bodies ==
    { [json |-> TRUE, content |-> Some(<<"text">>)],
      [json |-> TRUE, content |-> Some(<<>>)],
      [json |-> TRUE, content |-> NoneResp],
      [json |-> FALSE, content |-> NoneResp] }

HttpOutcomes == [provider : Providers, kind : HttpKinds, body : Bodies]

\* generate_completion of the four adapters: the text on status 200 (None
\* when json.loads or the lookup raises: the except returns None), None on
\* 429 (a branch of its own in all but Ollama's; OpenRouter's parses the body
\* first, and a body that is no JSON ends in the except, None again), None
\* on every other status, None on an exception.
GenerateCompletion(h) ==
    IF h.kind = "exception" THEN NoneResp
    ELSE IF h.kind = "200"
    THEN IF h.body.json THEN h.body.content ELSE NoneResp
    ELSE IF h.kind = "429" /\ h.provider # "ollama"
    THEN NoneResp
    ELSE NoneResp

InitAdapter ==
    /\ pc = "request"
    /\ SessionUnused
    /\ given = <<>>
    /\ response = NoneResp
    /\ returned = ""
    /\ config = NoConfig
    /\ http \in HttpOutcomes
    /\ consumed = 0
    /\ stream = "none"
    /\ yielded = <<>>
    /\ GatherIdle
    /\ ServerIdle

\* call_llm around generate_completion (researcher.py lines 37-48).
Complete ==
    /\ pc = "request"
    /\ returned' = CallLLM(GenerateCompletion(http))
    /\ pc' = "completed"
    /\ UNCHANGED <<session, given, response, config, http, consumed, stream,
                   yielded, gather, server>>

NextAdapter == Complete

SpecAdapter == InitAdapter /\ [][NextAdapter]_vars

(* --------------------- the search-provider selector ------------------- *)
\* Names a configuration may give, in lower case: the three backends, one
\* that is none of them, and the empty name.
ProviderNames == {"serpapi", "bing", "ddg", "google", ""}
Casings == {"lower", "upper", "capital"}

\* A name as the configuration spells it.
Cased(name, how) ==
    CASE how = "lower" -> name
      [] name = "serpapi" -> (IF how = "upper" THEN "SERPAPI" ELSE "SerpAPI")
      [] name = "bing" -> (IF how = "upper" THEN "BING" ELSE "Bing")
      [] name = "ddg" -> (IF how = "upper" THEN "DDG" ELSE "Ddg")
      [] name = "google" -> (IF how = "upper" THEN "GOOGLE" ELSE "Google")
      [] OTHER -> name

\* str.lower() on a provider name.
LowerName(str) ==
    CASE str \in {"SERPAPI", "SerpAPI"} -> "serpapi"
      [] str \in {"BING", "Bing"} -> "bing"
      [] str \in {"DDG", "Ddg"} -> "ddg"
      [] str \in {"GOOGLE", "Google"} -> "google"
      [] OTHER -> str

\* An Optional[str] API key: None, the empty string, a key.
ApiKeys == {NoneResp, Some(<<>>), Some(<<"key">>)}

\* The backend without a key of its own.
NoKey == NoneResp

\* get_search_provider with `provider == "bing"` alone in its second test.
GetSearchProviderBingUnkeyed(cfg) ==
    LET provider == LowerName(cfg.search_provider)
    IN IF provider = "serpapi" /\ Truthy(cfg.serpapi_api_key)
       THEN [backend |-> "SerpAPIProvider", api_key |-> cfg.serpapi_api_key]
       ELSE IF provider = "bing"
       THEN [backend |-> "BingProvider", api_key |-> cfg.bing_api_key]
       ELSE [backend |-> "DDGProvider", api_key |-> NoKey]

\* get_search_provider (search_providers.py lines 146-161).
GetSearchProvider(cfg) ==
    LET provider == LowerName(cfg.search_provider)
    IN IF provider = "serpapi" /\ Truthy(cfg.serpapi_api_key)
       THEN [backend |-> "SerpAPIProvider", api_key |-> cfg.serpapi_api_key]
       ELSE IF provider = "bing" /\ Truthy(cfg.bing_api_key)
       THEN [backend |-> "BingProvider", api_key |-> cfg.bing_api_key]
       ELSE IF provider = "ddg"
       THEN [backend |-> "DDGProvider", api_key |-> NoKey]
       ELSE IF provider = "serpapi"
       THEN [backend |-> "DDGProvider", api_key |-> NoKey]
       ELSE [backend |-> "DDGProvider", api_key |-> NoKey]

InitSelector ==
    /\ pc = "configured"
    /\ SessionUnused
    /\ given \in ProviderNames
    /\ response = NoneResp
    /\ returned = ""
    /\ \E how \in Casings, serpapi \in ApiKeys, bing \in ApiKeys :
          config = [search_provider |-> Cased(given, how),
                    serpapi_api_key |-> serpapi, bing_api_key |-> bing]
    /\ http = NoHttp
    /\ consumed = 0
    /\ stream = "none"
    /\ yielded = <<>>
    /\ GatherIdle
    /\ ServerIdle

Select ==
    /\ pc = "configured"
    /\ returned' = GetSearchProvider(config)
    /\ pc' = "selected"
    /\ UNCHANGED <<session, given, response, config, http, consumed, stream,
                   yielded, gather, server>>

NextSelector == Select

SpecSelector == InitSelector /\ [][NextSelector]_vars

(* ---------------------- the streaming consumer ------------------------ *)
\* Largest max_iterations of a streamed session.
StreamIterations == 1

\* research_status_generator up to its loop (main.py lines 72-85): the queue
\* exists and research() is a task that has not run yet.
InitStream ==
    /\ SessionInit
    /\ has_queue
    /\ max_iterations <= StreamIterations
    /\ given = <<>>
    /\ response = NoneResp
    /\ returned = ""
    /\ config = NoConfig
    /\ http = NoHttp
    /\ consumed = 0
    /\ stream = "open"
    /\ yielded = <<>>
    /\ GatherIdle
    /\ ServerIdle

\* Where research() is suspended in an adapter call (the completion call, the
\* searches, the fetch).
InFlight ==
    {"initial", "searching", "fetch", "filter", "extract", "plan", "report"}

\* main.py lines 89-99: one turn of the loop: take the next status from the
\* queue and yield it; only a complete status breaks the loop.
Consume ==
    /\ stream = "open"
    /\ consumed < Len(events)
    /\ LET status == events[consumed + 1]
       IN /\ yielded' = Append(yielded, status.type)
          /\ stream' = IF status.type = "complete" THEN "closed" ELSE "open"
    /\ consumed' = consumed + 1
    /\ UNCHANGED <<pc, session, given, response, returned, config, http,
                   gather, server>>

\* main.py lines 101-104: the generator is cancelled while it waits in
\* status_queue.get(): it cancels the research task, yields its own error
\* status and breaks.  The cancelled task gets CancelledError at the await it
\* is suspended in; that is no Exception, so no adapter's `except Exception`
\* catches it and research(), which has no handler, ends there.
Disconnect ==
    /\ stream = "open"
    /\ consumed = Len(events)
    /\ pc \in InFlight \cup {"failed", "raised"}
    /\ pc' = IF pc \in InFlight THEN "cancelled" ELSE pc
    /\ yielded' = Append(yielded, "error")
    /\ stream' = "closed"
    /\ UNCHANGED <<session, given, response, returned, config, http, consumed,
                   gather, server>>

\* The generator is closed while it stands at a yield: GeneratorExit is
\* neither CancelledError nor an Exception, so neither handler runs and the
\* research task is left running.
Close ==
    /\ stream = "open"
    /\ consumed > 0
    /\ stream' = "closed"
    /\ UNCHANGED <<pc, session, given, response, returned, config, http,
                   consumed, yielded, gather, server>>

NextStream ==
    \/ Next
    \/ Consume
    \/ Disconnect
    \/ Close

SpecStream == InitStream /\ [][NextStream]_vars

\* The client stays connected; the event loop runs the research task and the
\* generator whenever they can run.
NextListening ==
    \/ Next
    \/ Consume

SpecListening ==
    InitStream /\ [][NextListening]_vars /\ WF_vars(Next) /\ WF_vars(Consume)

(* ------------------ the search tasks, one by one ---------------------- *)
\* What the search backend may answer to one call: status 200 with the
\* links of SearchOutcomes, another status (whatever its body holds), or no
\* answer at all (the client raises).
SearchReplies ==
    {[status |-> "200", links |-> l] : l \in SearchOutcomes}
        \cup {[status |-> "500", links |-> <<"u2">>],
              [status |-> "exception", links |-> <<>>]}

\* perform_search (lines 107-129): the links on status 200, [] otherwise.
PerformSearch(reply) == IF reply.status = "200" THEN reply.links ELSE <<>>

\* What the provider answers to the initial prompt in the sessions below: a
\* failure, or a fenced list of two queries.
GatherInitials ==
    { NoneResp,
      Some(<<"fence_python", SP, "[", "str_a", ",", SP, "str_b", "]", SP, "fence">>) }

\* ... and to the next-queries prompt: a failure, done, or one more query.
GatherPlans ==
    { NoneResp, Some(<<DoneSentinel>>), Some(<<"[", "str_c", "]">>) }

\* The result slots of gather before any task has returned.
EmptySlots == [k \in 1..Len(queries) |-> <<>>]

\* The tasks of this iteration's batch that have returned, and their order.
ThisIteration(c) == c.iteration = iteration
ReturnedNow == SelectSeq(completed, ThisIteration)
ReturnedTasks == {ReturnedNow[k].task : k \in 1..Len(ReturnedNow)}

\* A wait that ends with the first task to return.
AnyReturned(p) == Cardinality(p) < Len(queries)

\* await asyncio.gather(*search_tasks) goes on when no task is pending.
AllReturned(p) == p = {}

\* The results in the order the tasks returned in (asyncio.as_completed).
ResultsAsCompleted(slots, order) == [k \in 1..Len(order) |-> slots[order[k].task]]

\* asyncio.gather: the results stand in the order of the awaitables it was
\* given, whatever the order the tasks returned in.
GatherResults(slots, order) == slots

InitGather ==
    /\ SessionInit
    /\ given = <<>>
    /\ AuxIdle

InitialTwo ==
    /\ \E outcome \in GatherInitials : InitialWith(outcome)
    /\ UNCHANGED aux

\* One perform_search task of the batch returns (lines 107-129, run by the
\* event loop while research() waits in gather, line 391).
SearchReturns ==
    /\ pc = "searching"
    /\ \E i \in pending, reply \in SearchReplies :
         LET links == PerformSearch(reply)
             slots == IF search_results = <<>> THEN EmptySlots ELSE search_results
             hits == Cardinality({k \in 1..Len(slots) : slots[k] # <<>>})
         IN /\ calls.hits + hits + (IF links # <<>> THEN 1 ELSE 0) <= MaxHits
            /\ search_results' = [slots EXCEPT ![i] = links]
            /\ pending' = pending \ {i}
            /\ completed' = Append(completed, [iteration |-> iteration, task |-> i,
                                                links |-> links])
            /\ search_failed' =
                  IF reply.status = "200" THEN search_failed
                  ELSE search_failed \cup {[iteration |-> iteration, task |-> i]}
    /\ UNCHANGED <<pc, has_queue, max_iterations, iteration, queries,
                   all_queries, contexts, iteration_contexts, logs, events,
                   unique_links, link_idx, content, report, result,
                   initial_response, calls, planned, batches, fetched,
                   filtered, extracted, saved_path, given, response, returned,
                   config, http, consumed, stream, yielded, server>>

\* Lines 391-404: gather hands its results to research().
Gathered ==
    /\ AllReturned(pending)
    /\ search_results # <<>>
    /\ SearchWith(GatherResults(search_results, ReturnedNow))
    /\ UNCHANGED aux

PlanFew ==
    /\ \E outcome \in GatherPlans : PlanWith(outcome)
    /\ UNCHANGED aux

NextGather ==
    \/ Start
    \/ InitialTwo
    \/ Iterate
    \/ SearchReturns
    \/ Gathered
    \/ Fetch
    \/ Filter
    \/ Extract
    \/ PlanFew
    \/ Report

SpecGather == InitGather /\ [][NextGather]_vars

(* ------------------ main.py: the engine in use ------------------------ *)
\* The requests the server handles at a time.
SessionIds == {1, 2}

\* Most completion calls one request's research() makes.
SessionCalls == 2

\* The provider strings a configuration request may carry: one that wants a
\* key, one that wants none, one the factory does not know, and one in
\* capitals.
ConfigProviders == {"openai", "ollama", "gemini", "OpenAI"}

\* str.lower() on a provider string.
LowerProvider(str) == IF str = "OpenAI" THEN "openai" ELSE str

\* Settings.llm_provider's default (config.py line 22).
DefaultProvider == "openrouter"

\* Model names; a request may carry none.
Models == {"m1", "m2"}
NoModel == ""

\* The providers update_llm_config wants an API key for.
KeyedProviders == {"openai", "anthropic", "openrouter"}

\* The parameters of ResearchEngine.__init__ (researcher.py lines 17-22), all
\* without a default, and the keyword arguments main.py passes.
EngineParams == {"serpapi_api_key", "jina_api_key", "config"}
PassedByMain == {"jina_api_key", "config"}

NoProvider == [name |-> "", model |-> ""]
NoEngine == [llm_provider |-> NoProvider]

\* get_llm_provider: the adapter object, built with the model the settings
\* hold for it at this moment, or ValueError.
GetLLMProvider(cfg) ==
    LET provider == LowerProvider(cfg.llm_provider)
    IN IF provider \in Providers
       THEN [raised |-> "",
             provider |-> [name |-> provider, model |-> cfg.model[provider]]]
       ELSE [raised |-> "ValueError", provider |-> NoProvider]

\* ResearchEngine(...): TypeError when a parameter is not passed; otherwise
\* __init__ runs and keeps the adapter get_llm_provider returns.
NewResearchEngine(passed, cfg) ==
    IF ~(EngineParams \subseteq passed)
    THEN [raised |-> "TypeError", engine |-> NoEngine]
    ELSE LET p == GetLLMProvider(cfg)
         IN IF p.raised # "" THEN [raised |-> p.raised, engine |-> NoEngine]
            ELSE [raised |-> "", engine |-> [llm_provider |-> p.provider]]

\* The topic of a request.
Query(s) == IF s = 1 THEN "topic 1" ELSE "topic 2"

IdleSession ==
    [state |-> "idle", engine |-> 0, calls |-> <<>>, contexts |-> <<>>,
     logs |-> <<>>, events |-> <<>>]

\* The adapter read from the settings at the time of the call.
ProviderFromSettings(s) == GetLLMProvider(settings).provider

\* The settings name the provider of this adapter.
Current(provider) == LowerProvider(settings.llm_provider) = provider.name

\* call_llm, line 39: self.llm_provider of the engine research() was called on.
ProviderUsed(s) == engines[sessions[s].engine].llm_provider

\* A serving process: the settings are loaded (the default provider, with its
\* key and any of the other keys) and research_engine holds an engine that
\* __init__ built from them (the call of lines 46-49 passes no
\* serpapi_api_key; the engine here got all three arguments).
InitConfig ==
    /\ pc = "serving"
    /\ SessionUnused
    /\ given = <<>>
    /\ response = NoneResp
    /\ returned = ""
    /\ config = NoConfig
    /\ http = NoHttp
    /\ consumed = 0
    /\ stream = "none"
    /\ yielded = <<>>
    /\ GatherIdle
    /\ \E keys \in SUBSET KeyedProviders :
          /\ DefaultProvider \in keys
          /\ settings = [llm_provider |-> DefaultProvider,
                         model |-> [p \in Providers |-> "m1"],
                         keys |-> keys]
    /\ engines = <<NewResearchEngine(EngineParams, settings).engine>>
    /\ research_engine = 1
    /\ sessions = [s \in SessionIds |-> IdleSession]

\* main.py lines 77-83 and 123-126: research_engine.research(...) is called
\* on the engine the global names at this moment; research() sets up its
\* locals (researcher.py lines 354-356) and sends the start status.
StartSession ==
    /\ pc = "serving"
    /\ \E s \in SessionIds :
         /\ sessions[s].state = "idle"
         /\ sessions' = [sessions EXCEPT ![s] =
               [state |-> "running", engine |-> research_engine,
                calls |-> <<>>, contexts |-> <<>>,
                logs |-> << <<"Starting research: ", Query(s)>> >>,
                events |-> << [type |-> "start",
                               message |-> <<"Starting research: ", Query(s)>>] >>]]
    /\ UNCHANGED <<pc, session, given, response, returned, config, http,
                   consumed, stream, yielded, gather, settings,
                   research_engine, engines>>

\* One completion call of a running research() (researcher.py line 39), and
\* what the session keeps of it in its own locals and on its own queue; the
\* call is noted with whether the settings still name its provider.
CompletionCall ==
    /\ pc = "serving"
    /\ \E s \in SessionIds :
         /\ sessions[s].state = "running"
         /\ Len(sessions[s].calls) < SessionCalls
         /\ sessions' = [sessions EXCEPT ![s] =
               [@ EXCEPT !.calls = Append(@, [provider |-> ProviderUsed(s),
                                              current |-> Current(ProviderUsed(s))]),
                         !.contexts = Append(@, <<"-", Query(s)>>),
                         !.logs = Append(@, <<"Extracted context (preview): ",
                                              "-", Query(s)>>),
                         !.events = Append(@, [type |-> "context",
                                               message |-> <<"Extracted context (preview): ",
                                                             "-", Query(s)>>])]]
    /\ UNCHANGED <<pc, session, given, response, returned, config, http,
                   consumed, stream, yielded, gather, settings,
                   research_engine, engines>>

\* research() returns.
EndSession ==
    /\ pc = "serving"
    /\ \E s \in SessionIds :
         /\ sessions[s].state = "running"
         /\ sessions' = [sessions EXCEPT ![s].state = "done"]
    /\ UNCHANGED <<pc, session, given, response, returned, config, http,
                   consumed, stream, yielded, gather, settings,
                   research_engine, engines>>

\* update_llm_config (main.py lines 174-197): the key check (HTTP 400, nothing
\* changed), then the settings are written (setattr of a model for a string
\* that names no field of Settings raises), then the engine is constructed
\* anew and, when that returns, the global is rebound to it.
UpdateLLMConfig ==
    /\ pc = "serving"
    /\ \E provider \in ConfigProviders, model \in Models \cup {NoModel} :
         IF provider \in KeyedProviders /\ provider \notin settings.keys
         THEN UNCHANGED <<settings, research_engine, engines>>
         ELSE LET named == [settings EXCEPT !.llm_provider = provider]
                  written == IF model = NoModel \/ provider \notin Providers
                             THEN named
                             ELSE [named EXCEPT !.model[provider] = model]
                  made == NewResearchEngine(PassedByMain, written)
              IN /\ settings' = written
                 /\ IF (model # NoModel /\ provider \notin Providers)
                        \/ made.raised # ""
                    THEN UNCHANGED <<research_engine, engines>>
                    ELSE /\ engines' = Append(engines, made.engine)
                         /\ research_engine' = Len(engines) + 1
    /\ UNCHANGED <<pc, session, given, response, returned, config, http,
                   consumed, stream, yielded, gather, sessions>>

NextConfig ==
    \/ StartSession
    \/ CompletionCall
    \/ EndSession
    \/ UpdateLLMConfig

SpecConfig == InitConfig /\ [][NextConfig]_vars

(* ------------------------------ claims -------------------------------- *)
Range(seq) == {seq[i] : i \in 1..Len(seq)}

IsPrefix(a, b) == Len(a) <= Len(b) /\ SubSeq(b, 1, Len(a)) = a

Min(a, b) == IF a < b THEN a ELSE b

\* research() has ended: by a return (done, failed) or by an exception.
Ended == pc \in {"done", "failed", "raised"}

\* C1: for every max_iterations >= 1 and whatever the planner answers,
\* research() performs at most max_iterations search fan-outs, then
\* synthesises the report and returns: a session that obtained initial
\* queries ends only by the return that follows its one report synthesis.
C1_BoundedLoopThenReport ==
    /\ calls.fanout <= max_iterations
    /\ (Ended /\ all_queries # <<>>) =>
          (pc = "done" /\ calls.report = 1 /\ result.returned)

\* The part of C1 the code keeps: never more than max_iterations fan-outs,
\* and a return only after one report synthesis.
C1_FanoutsBounded ==
    /\ calls.fanout <= max_iterations
    /\ pc = "done" => (calls.report = 1 /\ result.returned)

C3_NoExceptionEscapes ==
    all_queries # <<>> => (pc # "raised" /\ (Ended => result.returned))

\* C4: when contexts is empty at loop exit, research() makes no completion
\* call for the report and returns the fixed insufficient-information
\* message.
C4_EmptyContextsFixedReport ==
    (pc = "done" /\ contexts = <<>>) =>
        (calls.report = 0 /\ result.report = InsufficientReport)

\* The first query of the batch whose result list holds the link.
FirstProducer(link) ==
    CHOOSE i \in 1..Len(search_results) :
        /\ link \in Range(search_results[i])
        /\ \A j \in 1..(i - 1) : link \notin Range(search_results[j])

\* Gather has returned and the link map was just built from its results.
JustDeduplicated ==
    pc \in {"fetch", "plan"} /\ link_idx = 1 /\ fetched = <<>>
        /\ Len(search_results) = Len(queries) /\ Len(queries) > 0

\* C5: in every iteration the deduplicated link map has exactly one entry
\* per distinct URL of the batch's result lists, and the entry's provenance
\* is the lowest-indexed query of the batch whose result list holds the URL.
C5_DedupFirstQueryWins ==
    JustDeduplicated =>
        LET urls == UNION {Range(search_results[i]) : i \in 1..Len(search_results)}
        IN /\ LinksOf(unique_links) = urls
           /\ Len(unique_links) = Cardinality(urls)
           /\ \A k \in 1..Len(unique_links) :
                 unique_links[k].query = queries[FirstProducer(unique_links[k].link)]

\* Two queries of one batch returned the same URL, one of them twice, and
\* the two links of the map come from different queries.
C5_Witness ==
    /\ JustDeduplicated
    /\ \E i, j \in 1..Len(search_results) :
          /\ i < j
          /\ search_results[i] = <<"u1">>
          /\ search_results[j] = <<"u2", "u1", "u2">>
          /\ queries[i] # queries[j]
    /\ Len(unique_links) = 2
    /\ unique_links[1].query # unique_links[2].query

\* The planner's answer ends the loop: None (done) or an empty list.
Stops(new) == new.done \/ new.queries = <<>>

\* The first iteration whose planner call ended the loop; beyond every
\* max_iterations when there is none.
FirstStop ==
    IF \E i \in 1..Len(planned) : Stops(planned[i])
    THEN CHOOSE i \in 1..Len(planned) :
            Stops(planned[i]) /\ \A j \in 1..(i - 1) : ~Stops(planned[j])
    ELSE max_iterations + 1

\* How many "links" events the log holds: one per pass over the links.
RECURSIVE CountLinksMessages(_)
CountLinksMessages(log) ==
    IF log = <<>> THEN 0
    ELSE (IF Len(Head(log)) = 3 /\ Head(log)[3] = " unique links" THEN 1 ELSE 0)
            + CountLinksMessages(Tail(log))

\* C6: a session that obtained initial queries and reached the report has
\* executed min(max_iterations, k) iterations (search fan-out, pass over the
\* links, planner call), k the first iteration whose planner call returned
\* done or an empty list.
C6_IterationCount ==
    pc \in {"report", "done"} =>
        /\ calls.fanout = Min(max_iterations, FirstStop)
        /\ calls.plan = calls.fanout
        /\ CountLinksMessages(logs) = calls.fanout
        /\ Len(batches) = calls.fanout

\* The loop ran into max_iterations while the planner still had queries.
C6_Witness ==
    /\ pc = "done"
    /\ max_iterations = 2
    /\ calls.fanout = 2
    /\ ~Stops(planned[2])

\* The pass over the links of the iteration is over.
PassOver == pc \in {"plan", "iterate", "searching", "report", "done"}

\* C7: in an iteration, a link whose fetch returned "" is skipped (neither
\* filtered nor extracted) and nothing else is: the links are fetched one
\* by one in the order of the map, and at the end of the pass every link
\* has been fetched and every link with a page has been filtered.
C7_EmptyFetchSkipsOneLink ==
    /\ Len(fetched) <= Len(unique_links)
    /\ \A i \in 1..Len(fetched) :
          /\ fetched[i].link = unique_links[i].link
          /\ fetched[i].text = <<>> =>
                fetched[i].link \notin (filtered \cup extracted)
    /\ PassOver =>
          /\ Len(fetched) = Len(unique_links)
          /\ \A i \in 1..Len(fetched) :
                fetched[i].text # <<>> => fetched[i].link \in filtered

\* Of two links the first came back empty and the second was still fetched
\* and filtered.
C7_Witness ==
    /\ pc = "plan"
    /\ Len(unique_links) = 2
    /\ Len(fetched) = 2
    /\ fetched[1].text = <<>>
    /\ fetched[2].text # <<>>
    /\ filtered = {fetched[2].link}

\* The position of a link in the map of the iteration.
PositionOf(link) == CHOOSE k \in 1..Len(unique_links) : unique_links[k].link = link

\* The link a context of the model was extracted from (its last token).
SourceOf(context) == context[Len(context)]

\* The batch of the iteration follows the order of the map.
BatchInLinkOrder ==
    \A i, j \in 1..Len(iteration_contexts) :
        i < j => PositionOf(SourceOf(iteration_contexts[i]))
                    < PositionOf(SourceOf(iteration_contexts[j]))

\* C8: contexts is append-only: every step leaves the old contexts a prefix
\* of the new one, and what a step adds is the batch of the iteration, whose
\* contexts stand in the order their links were first seen.
C8_ContextsAppendOnly ==
    [][/\ IsPrefix(contexts, contexts')
       /\ contexts' # contexts =>
             /\ BatchInLinkOrder
             /\ contexts' = contexts \o iteration_contexts]_vars

\* The second iteration added to the contexts of the first.
C8_Witness ==
    /\ calls.plan = 2
    /\ Len(contexts) >= 2
    /\ Len(iteration_contexts) >= 1
    /\ Len(iteration_contexts) < Len(contexts)

\* C9: from an answer that holds a well-formed list of strings (bare, in a
\* code fence or in prose without brackets) the planner keeps the first 4
\* in their order when there are more than 4, and all of them otherwise.
C9_FirstFourKept ==
    pc = "parsed" =>
        queries = IF Len(given) > QueryLimit
                  THEN SubSeq(given, 1, QueryLimit)
                  ELSE given

\* ['a', 'b', 'c', 'd', 'e'] yields ['a', 'b', 'c', 'd'].
C9_Witness ==
    /\ pc = "parsed"
    /\ given = <<"a", "b", "c", "d", "e">>
    /\ queries = <<"a", "b", "c", "d">>

\* C10: every batch handed to the search fan-out, the initial one and the
\* planner's, holds at most 4 queries.
C10_BatchesAtMostFour ==
    \A i \in 1..Len(batches) : Len(batches[i]) <= QueryLimit

\* The tokens of an answer that are neither whitespace nor a code fence.
Core(r) ==
    LET Counts(tok) == tok # SP /\ tok \notin Fences
    IN IF r.some THEN SelectSeq(r.text, Counts) ELSE <<>>

\* The answer is the done sentinel, possibly fenced and padded.
IsDoneAnswer(r) == Core(r) = <<DoneSentinel>>

\* The answer cannot be the text of a non-empty list: the call failed or
\* answered nothing, or the text does not open with [ and close with ], or
\* it is the empty list, or it holds a prose word or a misplaced sentinel.
IsNoListAnswer(r) ==
    LET core == Core(r)
    IN /\ ~IsDoneAnswer(r)
       /\ \/ ~r.some
          \/ r.text = <<>>
          \/ core = <<>>
          \/ core[1] # "["
          \/ core[Len(core)] # "]"
          \/ core = <<"[", "]">>
          \/ "word" \in Range(core)
          \/ DoneSentinel \in Range(core)

MessagesBeforeLast(evs) == [i \in 1..(Len(evs) - 1) |-> evs[i].message]

\* C12: a session that succeeds returns (report, logs); with a status queue
\* the last event pushed is the one complete event, it carries that report
\* and those logs, and the events before it carry the messages of logs in
\* order; without a queue nothing is pushed and the messages are in logs only.
C12_CompleteEventLast ==
    /\ \A i \in 1..Len(events) :
          events[i].type = "complete" => (i = Len(events) /\ pc = "done")
    /\ pc = "done" =>
          /\ result = [returned |-> TRUE, report |-> report, logs |-> logs]
          /\ logs # <<>>
          /\ IF has_queue
             THEN /\ events # <<>>
                  /\ events[Len(events)].type = "complete"
                  /\ events[Len(events)].report = result.report
                  /\ events[Len(events)].logs = result.logs
                  /\ MessagesBeforeLast(events) = logs
             ELSE events = <<>>

\* A streamed session with a context and a generated report has ended.
C12_Witness ==
    /\ pc = "done"
    /\ has_queue
    /\ contexts # <<>>
    /\ report # InsufficientReport
    /\ events[Len(events)].type = "complete"

\* C13: in a streamed run whose client stays connected, however the
\* research task ends, the consumer eventually yields a terminal event
\* (complete or error) and stops.
C13_ConsumerStops ==
    <>(/\ stream = "closed"
       /\ yielded # <<>>
       /\ yielded[Len(yielded)] \in {"complete", "error"})

\* The research task has ended, the queue is drained and the consumer still
\* waits in status_queue.get().
C13_Stuck ==
    /\ pc \in {"failed", "raised"}
    /\ consumed = Len(events)
    /\ stream = "open"

\* C14: a session cancelled in flight has emitted a terminal cancellation
\* status: the last event on its queue tells of the cancellation.
C14_CancelledSessionSaysSo ==
    pc = "cancelled" =>
        /\ events # <<>>
        /\ events[Len(events)].type \in {"cancelled", "error"}

\* The spellings of a first word that starts with the negative token.
NegativeWords == {"No", "no", "No.", "No,"}

\* The verdicts research() logged, one per filtered page.
IsVerdict(message) == Len(message) = 2 /\ message[1] = "Page usefulness: "
Verdicts == SelectSeq(logs, IsVerdict)

\* is_page_useful has been called for the page and research() has moved on.
Judged == calls.filter = 1 /\ pc # "filter"

\* C15: the filter's verdict is No whenever the answer, without fences and
\* surrounding whitespace, starts with the negative token (No, No., No, ...
\* in any case), and Yes for every other answer.
C15_NegativeStartNotUseful ==
    Judged =>
        LET core == Core(response)
            expected == IF core # <<>> /\ core[1] \in NegativeWords
                        THEN "No" ELSE "Yes"
        IN Verdicts = << <<"Page usefulness: ", expected>> >>

\* C16: when the relevance call fails or its answer carries no negative
\* token, the verdict is Yes and research() goes on to the extractor for
\* the link.
C16_AmbiguousIsUseful ==
    (Judged /\ (~Truthy(response) \/ Range(response.text) \cap NegativeWords = {})) =>
        /\ Verdicts = << <<"Page usefulness: ", "Yes">> >>
        /\ pc = "extract" \/ calls.extract = 1

\* C17: the extractor returns nothing when the call fails and when the
\* trimmed answer is empty, is the nothing-found sentinel or does not begin
\* with the bullet marker; otherwise it returns the trimmed answer, as it is.
C17_ExtractorReturnsTrimmedBullets ==
    pc = "extracted" =>
        returned = IF \/ ~response.some
                      \/ given = <<>>
                      \/ given = <<NoInfoSentinel>>
                      \/ given[1] \notin BulletTokens
                   THEN NoneResp
                   ELSE Some(given)

\* A padded bullet text came back without its padding.
C17_Witness ==
    /\ pc = "extracted"
    /\ response = Some(<<SP, "-", SP, "word", SP>>)
    /\ returned = Some(<<"-", SP, "word">>)

\* The three failures the adapter is to tell apart.
FailureKind(h) ==
    CASE h.kind = "exception" -> "NetworkError"
      [] h.kind = "429" -> "RateLimited"
      [] h.kind = "200" -> "none"
      [] OTHER -> "ProviderError"

Failures == {"RateLimited", "ProviderError", "NetworkError"}

\* C18: what the adapter returns for a rate-limit response, for another
\* non-200 status and for an exception tells the three apart: the result of
\* a failed call differs from the result of every call that fails in
\* another of the three ways.
C18_FailureKindsToldApart ==
    (pc = "completed" /\ FailureKind(http) \in Failures) =>
        \A other \in HttpOutcomes :
            (FailureKind(other) \in Failures \ {FailureKind(http)}) =>
                CallLLM(GenerateCompletion(other)) # returned

\* C19: for every provider name, in any spelling, and every combination of
\* keys the selector returns a backend; it is the keyless DuckDuckGo one
\* whenever the name is serpapi or bing and that backend's key is absent
\* (None or empty) and whenever the name is none of the three, and a keyed
\* backend is returned only with its key.
C19_KeylessFallback ==
    pc = "selected" =>
        /\ returned.backend \in {"SerpAPIProvider", "BingProvider", "DDGProvider"}
        /\ (given = "serpapi" /\ ~Truthy(config.serpapi_api_key)) =>
              returned.backend = "DDGProvider"
        /\ (given = "bing" /\ ~Truthy(config.bing_api_key)) =>
              returned.backend = "DDGProvider"
        /\ given \notin {"serpapi", "bing", "ddg"} =>
              returned.backend = "DDGProvider"
        /\ returned.backend # "DDGProvider" => Truthy(returned.api_key)

\* Bing is configured, in capitals, without its key while a SerpAPI key is
\* there: the selector fell back to DuckDuckGo.
C19_Witness ==
    /\ pc = "selected"
    /\ config = [search_provider |-> "BING", serpapi_api_key |-> Some(<<"key">>),
                 bing_api_key |-> NoneResp]
    /\ returned.backend = "DDGProvider"

\* The queries handed to the search capability so far.
Issued == UNION {Range(batches[i]) : i \in 1..Len(batches)}

\* C20: when the session reaches report synthesis, all_queries holds exactly
\* the queries that were searched: every searched query, and no other.
C20_AllQueriesWereSearched ==
    pc \in {"report", "done"} => Range(all_queries) = Issued

\* The search tasks of the iteration's batch that failed.
FailedNow == {c.task : c \in {f \in search_failed : f.iteration = iteration}}

\* research() is in the pass over the links.
ProcessingLinks == pc \in {"fetch", "filter", "extract"}

\* C21: no fetch, filter or extract call starts before every search call of
\* the iteration's batch has returned; a search call that failed contributes
\* an empty list, and the links the other queries returned are in the map
\* and are processed.
C21_FanInBarrier ==
    /\ ProcessingLinks =>
          (pending = {} /\ ReturnedTasks = 1..Len(queries))
    /\ JustDeduplicated =>
          /\ \A i \in FailedNow : search_results[i] = <<>>
          /\ LinksOf(unique_links) =
                UNION {Range(search_results[i]) : i \in 1..Len(search_results)}
    /\ pc = "plan" =>
          {fetched[k].link : k \in 1..Len(fetched)} = LinksOf(unique_links)

\* The second search of the batch failed after the first had returned a
\* link, and the link is being fetched.
C21_Witness ==
    /\ pc = "fetch"
    /\ FailedNow = {2}
    /\ Len(unique_links) = 1
    /\ unique_links[1].query = queries[1]
    /\ ReturnedTasks = {1, 2}

\* The links of the map whose fetch has returned, with a page.
FetchedLinks == {fetched[k].link : k \in 1..Len(fetched)}
WithPage == {fetched[k].link : k \in {j \in 1..Len(fetched) : fetched[j].text # <<>>}}

\* C22: link processing is sequential: the links before the one the loop
\* stands at are done (fetched, and filtered when they had a page), the links
\* after it are untouched, and the link it stands at has exactly one call in
\* flight, its fetch first, its filter only after the fetch returned a page,
\* its extraction only after the filter returned.
C22_OneLinkAtATime ==
    /\ extracted \subseteq filtered
    /\ filtered \subseteq WithPage
    /\ \A k \in 1..Len(unique_links) :
          LET l == unique_links[k].link
          IN /\ k < link_idx =>
                   /\ k <= Len(fetched)
                   /\ fetched[k].link = l
                   /\ l \in WithPage => l \in filtered
             /\ k > link_idx => l \notin (FetchedLinks \cup filtered \cup extracted)
             /\ (k = link_idx /\ pc = "fetch") =>
                   l \notin (FetchedLinks \cup filtered \cup extracted)
             /\ (k = link_idx /\ pc = "filter") =>
                   (l \in WithPage /\ l \notin (filtered \cup extracted))
             /\ (k = link_idx /\ pc = "extract") =>
                   (l \in WithPage /\ l \in filtered /\ l \notin extracted)
    /\ ProcessingLinks => link_idx \in 1..Len(unique_links)

\* The first link went through fetch, filter and extraction; the second has
\* been fetched and filtered and its extraction is in flight.
C22_Witness ==
    /\ pc = "extract"
    /\ link_idx = 2
    /\ Len(unique_links) = 2
    /\ extracted = {unique_links[1].link}
    /\ filtered = LinksOf(unique_links)

\* The message fields of the events pushed so far, in emission order.
Messages(evs) == [i \in 1..Len(evs) |-> evs[i].message]

\* C23: with a status queue, at every point of a run and at its end, logs is
\* the sequence of the message fields of the events pushed so far.
C23_LogsAreTheEventMessages ==
    has_queue => Messages(events) = logs

\* The events of the iteration under way: those from its iteration event on.
IterationStart ==
    LET starts == {i \in 1..Len(events) : events[i].type = "iteration"}
    IN IF starts = {} THEN 1 ELSE CHOOSE i \in starts : \A j \in starts : j <= i
IterationEvents == SubSeq(events, IterationStart, Len(events))

\* A context as the extractor may return it: not empty, not the
\* nothing-found sentinel, beginning with the bullet marker.
WellFormedContext(c) ==
    c # <<>> /\ c # <<NoInfoSentinel>> /\ c[1] \in BulletTokens

\* C24: every element of contexts is a well-formed context, and every
\* context of the iteration's batch was extracted, in this iteration, from a
\* link whose fetch returned a page and whose verdict was useful (the
\* evaluation event of that link, while the batch is the one of the
\* iteration under way, says so).
C24_ContextsAreExtractions ==
    /\ \A i \in 1..Len(contexts) : WellFormedContext(contexts[i])
    /\ \A i \in 1..Len(iteration_contexts) :
          LET c == iteration_contexts[i]
          IN /\ WellFormedContext(c)
             /\ SourceOf(c) \in (WithPage \cap filtered \cap extracted)
             /\ (has_queue /\ pc # "searching") =>
                   \E k \in 1..Len(IterationEvents) :
                       /\ IterationEvents[k].type = "evaluation"
                       /\ IterationEvents[k].url = SourceOf(c)
                       /\ IterationEvents[k].useful

\* Of two links with a page one was judged not useful and the other gave
\* the one context of the iteration, which joined an earlier one.
C24_Witness ==
    /\ pc = "report"
    /\ has_queue
    /\ Len(contexts) = 2
    /\ Len(iteration_contexts) = 1
    /\ Len(unique_links) = 2
    /\ filtered = LinksOf(unique_links)
    /\ Cardinality(extracted) = 1

\* C25: every query handed to the search capability, in the initial batch
\* and in every batch accepted from the planner, is a non-empty string.
C25_QueriesAreNonEmptyStrings ==
    \A i \in 1..Len(batches) :
        \A k \in 1..Len(batches[i]) : IsStr(batches[i][k]) /\ batches[i][k] # ""

\* What a session keeps: its contexts, its log messages, its events' messages.
Kept(s) ==
    Range(sessions[s].contexts) \cup Range(sessions[s].logs)
        \cup Range(Messages(sessions[s].events))

C27_FirstListIsParsed ==
    pc = "parsed" => queries = given

\* What the search task of the i-th query of the batch returned.
ResultOf(i) ==
    LET k == CHOOSE j \in 1..Len(ReturnedNow) : ReturnedNow[j].task = i
    IN ReturnedNow[k].links

\* The result lists one after the other, in the order of the batch.
RECURSIVE InBatchOrder(_)
InBatchOrder(i) ==
    IF i > Len(queries) THEN <<>> ELSE ResultOf(i) \o InBatchOrder(i + 1)

\* A sequence without the repetitions of its elements.
RECURSIVE Distinct(_)
Distinct(seq) ==
    IF seq = <<>> THEN <<>>
    ELSE LET front == Distinct(SubSeq(seq, 1, Len(seq) - 1))
             last == seq[Len(seq)]
         IN IF last \in Range(front) THEN front ELSE Append(front, last)

\* The first query of the batch whose task returned the link.
FirstQueryWith(link) ==
    queries[CHOOSE i \in 1..Len(queries) :
                /\ link \in Range(ResultOf(i))
                /\ \A j \in 1..(i - 1) : link \notin Range(ResultOf(j))]

\* C28: whatever the order the search tasks of a batch return in, the links
\* are processed in the order they first occur in the result lists taken in
\* the order of the batch, each link's provenance is the first query of the
\* batch whose task returned it, and the contexts follow the order of the
\* links.
C28_CompletionOrderDoesNotMatter ==
    /\ JustDeduplicated =>
          /\ [k \in 1..Len(unique_links) |-> unique_links[k].link]
                = Distinct(InBatchOrder(1))
          /\ \A k \in 1..Len(unique_links) :
                unique_links[k].query = FirstQueryWith(unique_links[k].link)
    /\ BatchInLinkOrder

\* The second task returned first, with two links one of which the first
\* task returned too; a context of each link was extracted.
C28_Witness ==
    /\ pc = "plan"
    /\ Len(ReturnedNow) = 2
    /\ ReturnedNow[1].task = 2
    /\ ReturnedNow[1].links = <<"u2", "u1", "u2">>
    /\ ReturnedNow[2].links = <<"u1">>
    /\ unique_links = <<[link |-> "u1", query |-> queries[1]],
                        [link |-> "u2", query |-> queries[2]]>>
    /\ Len(iteration_contexts) = 2

\* The event announces the planner's batch for the next iteration.
AnnouncesNext(ev) ==
    ev.type = "queries" /\ ev.message = <<"New queries for next iteration">>

\* The event at j opens an iteration whose fan-out issued the batch.
Searches(j, batch) ==
    /\ events[j].type = "iteration"
    /\ events[j].iteration <= Len(batches)
    /\ batches[events[j].iteration] = batch

\* C29: in the event stream of a session that has ended, every queries
\* event announcing new queries for the next iteration is followed by an
\* iteration event whose search fan-out issues exactly those queries.
C29_AnnouncedQueriesAreSearched ==
    (has_queue /\ pc = "done") =>
        \A i \in 1..Len(events) :
            AnnouncesNext(events[i]) =>
                \E j \in (i + 1)..Len(events) : Searches(j, events[i].queries)

\* The positions of the events of a type.
Of(type) == {i \in 1..Len(events) : events[i].type = type}

\* The events at i and j belong to the same iteration.
SameIteration(i, j) == \A k \in (i + 1)..j : events[k].type # "iteration"

\* The numbers the iteration events carry, in order.
IterationNumbers ==
    LET IsIteration(ev) == ev.type = "iteration"
        its == SelectSeq(events, IsIteration)
    IN [k \in 1..Len(its) |-> its[k].iteration]

\* C30: the event stream of a session follows the protocol: start is its
\* first event; the iteration events carry 1, 2, ..., k; in an iteration a
\* links event precedes every processing event; an evaluation event follows
\* the processing event of the same url with nothing in between (an empty
\* fetch puts a warning there), for a url fetched with a page; a context event follows an evaluation event
\* with useful = true of the same url; an error event comes only with no
\* initial queries and is the last event.
C30_EventProtocol ==
    has_queue =>
        /\ Of("start") = (IF events = <<>> THEN {} ELSE {1})
        /\ IterationNumbers = [k \in 1..Len(IterationNumbers) |-> k]
        /\ \A i \in Of("processing") :
              \E j \in Of("links") : j < i /\ SameIteration(j, i)
        /\ \A i \in Of("evaluation") :
              /\ i - 1 \in Of("processing")
              /\ events[i - 1].url = events[i].url
              /\ i >= IterationStart => events[i].url \in WithPage
        /\ \A i \in Of("context") :
              /\ i - 1 \in Of("evaluation")
              /\ events[i - 1].url = events[i].url
              /\ events[i - 1].useful
        /\ \A i \in Of("error") :
              i = Len(events) /\ pc = "failed" /\ all_queries = <<>>

\* A streamed session of two iterations with a link that had no page, a
\* page judged not useful and an extracted context has ended.
C30_Witness ==
    /\ has_queue
    /\ pc = "done"
    /\ IterationNumbers = <<1, 2>>
    /\ Of("context") # {}
    /\ \E i \in Of("evaluation") : ~events[i].useful
    /\ \E i \in Of("warning") : Len(events[i].message) = 2

\* The provider and the model get_llm_config reports (main.py lines 168-169).
Reported ==
    [provider |-> settings.llm_provider,
     model |-> IF settings.llm_provider \in Providers
               THEN settings.model[settings.llm_provider] ELSE NoModel]

\* An update request ended with an error: the global still names the engine
\* it named before (a completed update always binds it to a new object).
FailedUpdate == UpdateLLMConfig /\ research_engine' = research_engine

\* C31: a configuration update that fails (no API key for the requested
\* provider, or a provider string the factory rejects) leaves the provider
\* setting, the model setting and the engine in use as they were, and the
\* provider the configuration reports is the provider of the engine in use.
C31_FailedUpdateChangesNothing ==
    [][/\ FailedUpdate => settings' = settings
       /\ LowerProvider(Reported.provider)' =
              engines'[research_engine'].llm_provider.name]_vars

\* The links the contexts of the session were extracted from, in order.
SourcesOf(ctxs) == [k \in 1..Len(ctxs) |-> SourceOf(ctxs[k])]

\* C32: within one session a URL is fetched, filtered and extracted at most
\* once, also when a later iteration's searches return it again: contexts
\* never holds two entries extracted from the same URL.
C32_OneContextPerUrl ==
    \A i, j \in 1..Len(contexts) :
        i # j => SourcesOf(contexts)[i] # SourcesOf(contexts)[j]

\* C33: persisting the report is non-fatal and happens only on the success
\* path, after the report was made and before the complete event: the save
\* is tried in a session that completes and in no other, and when the write
\* fails the method returns the empty path, the complete event is still put
\* on the queue and research() returns the report and the logs it made.
C33_SaveIsNonFatal ==
    /\ saved_path # "unsaved" <=> pc = "done"
    /\ saved_path \in {"unsaved", "", SavedFile}
    /\ saved_path = "" =>
          /\ result = [returned |-> TRUE, report |-> report, logs |-> logs]
          /\ report \in {InsufficientReport} \cup
                        {o.text \o Methodology : o \in ReportOutcomes \ {NoneResp}}
          /\ has_queue =>
                /\ events[Len(events)].type = "complete"
                /\ events[Len(events)].report = report
                /\ events[Len(events)].logs = logs
                /\ Of("complete") = {Len(events)}

\* A streamed session with contexts whose report was made, whose file could
\* not be written, and which completed.
C33_Witness ==
    /\ pc = "done"
    /\ has_queue
    /\ contexts # <<>>
    /\ saved_path = ""
    /\ report # InsufficientReport

====
